---- MODULE Spec2Model ----
(***************************************************************************)
(* depbump: bump one Go module dependency, commit the result on a          *)
(* deterministic branch, optionally push it and open a pull request.       *)
(*                                                                         *)
(* The model follows main() of src/main.go (lines 115-447) step by step.   *)
(* Go strings are TLA+ strings; Len, \o and SubSeq act on them character   *)
(* by character, so the string functions of the Go standard library that   *)
(* main() calls are written out below as they compute.  External tools     *)
(* (go, git, the GitHub API) are nondeterministic: each invocation is      *)
(* appended to `log` and either fails or returns one of a few outputs.     *)
(***************************************************************************)
EXTENDS Integers, Sequences, FiniteSets, TLC

(***************************************************************************)
(* Bounds of the model.                                                    *)
(***************************************************************************)
\* Largest number of command-line arguments after the program name.
MaxArgs == 3

\* Largest number of those arguments that form the post-update COMMAND.
MaxPostCmd == 1

(***************************************************************************)
(* String functions of the Go standard library, as used by main().         *)
(***************************************************************************)
Char(s, i) == SubSeq(s, i, i)

Digits == {"0", "1", "2", "3", "4", "5", "6", "7", "8", "9"}

Letters ==
  {"a", "b", "c", "d", "e", "f", "g", "h", "i", "j", "k", "l", "m",
   "n", "o", "p", "q", "r", "s", "t", "u", "v", "w", "x", "y", "z",
   "A", "B", "C", "D", "E", "F", "G", "H", "I", "J", "K", "L", "M",
   "N", "O", "P", "Q", "R", "S", "T", "U", "V", "W", "X", "Y", "Z"}

\* The control characters that have no escape in a string, written as they
\* are between the quotes: 0x01 to 0x08, 0x0b, 0x0e to 0x1f, and 0x7f.  The
\* byte 0x00, which no argument and no line printed by git holds, is left
\* out.
RawControls == ""

\* The vertical tab (0x0b), written as it is.
VerticalTab == ""

\* U+0085, U+00A0 and U+1680, written as they are.  Each is one character
\* when the module is read as UTF-8; read otherwise, a character above 0x7f
\* comes out as several characters that tell nothing of the one written.
HighSpaces == {"", " ", " "}

\* unicode.IsSpace: tab, newline, vertical tab, form feed, carriage return,
\* space, U+0085, U+00A0 and U+1680.  The spaces from U+2000 on cannot be
\* written in a string of this module.
WhiteSpace ==
  {"\t", "\n", VerticalTab, "\f", "\r", " "} \cup {w \in HighSpaces : Len(w) = 1}

\* What a character above 0x7f is read as when the module is not read as
\* UTF-8: whether it is a space cannot be told.
Undecoded == {Char(w, 1) : w \in {x \in HighSpaces : Len(x) # 1}}

\* unicode.IsSpace(c); without a value for a character of Undecoded.
IsSpace(c) ==
  CASE c \in WhiteSpace -> TRUE
    [] c \notin WhiteSpace /\ c \notin Undecoded -> FALSE

\* The space characters of the text/template lexer inside an action.
ActionSpace == {" ", "\n", "\t", "\r"}

\* net/url stringContainsCTLByte: a byte below 0x20, or 0x7f (0x00 apart).
CTLBytes ==
  {"\t", "\n", "\f", "\r"} \cup {Char(RawControls, i) : i \in 1..Len(RawControls)}

\* The ASCII characters for which net/url shouldEscape(c, encodeHost) is
\* true, which a host may not hold (characters above 0x7f pass), without "%",
\* which starts an escape.  The grave accent, which cannot be written in a
\* string of this module, is the one member left out.
HostEscaped ==
  CTLBytes \cup {" ", "#", "/", "?", "@", "\\", "^", "{", "|", "}"}

\* net/url validUserinfo: the characters a userinfo may hold.
UserinfoChars ==
  Letters \cup Digits \cup
  {"-", ".", "_", ":", "~", "!", "$", "&", "'", "(", ")", "*", "+", ",",
   ";", "=", "%", "@"}

\* net/url ishex.
HexDigits ==
  Digits \cup {"a", "b", "c", "d", "e", "f", "A", "B", "C", "D", "E", "F"}

\* strings.HasPrefix
HasPrefix(s, p) == Len(s) >= Len(p) /\ SubSeq(s, 1, Len(p)) = p

\* strings.HasSuffix
HasSuffix(s, p) == Len(s) >= Len(p) /\ SubSeq(s, Len(s) - Len(p) + 1, Len(s)) = p

\* strings.TrimSuffix
TrimSuffix(s, p) == IF HasSuffix(s, p) THEN SubSeq(s, 1, Len(s) - Len(p)) ELSE s

\* Positions at which sep occurs in s.
Occurrences(s, sep) ==
  {k \in 1..(Len(s) - Len(sep) + 1) : SubSeq(s, k, k + Len(sep) - 1) = sep}

\* strings.Index, 1-based; 0 when sep does not occur in s at or after i.
IndexFrom(s, sep, i) ==
  LET occ == {k \in Occurrences(s, sep) : k >= i} IN
  IF occ = {} THEN 0 ELSE CHOOSE k \in occ : \A m \in occ : k <= m

Index(s, sep) == IndexFrom(s, sep, 1)

\* strings.LastIndex, 1-based; 0 when sep does not occur in s.
LastIndex(s, sep) ==
  LET occ == Occurrences(s, sep) IN
  IF occ = {} THEN 0 ELSE CHOOSE k \in occ : \A m \in occ : k >= m

\* strings.Contains
Contains(s, sep) == Index(s, sep) > 0

\* strings.Split for a non-empty separator; always at least one element.
RECURSIVE Split(_, _)
Split(s, sep) ==
  LET k == Index(s, sep) IN
  IF k = 0 THEN <<s>>
  ELSE <<SubSeq(s, 1, k - 1)>> \o Split(SubSeq(s, k + Len(sep), Len(s)), sep)

\* strings.SplitN(s, sep, 2)
SplitN2(s, sep) ==
  LET k == Index(s, sep) IN
  IF k = 0 THEN <<s>>
  ELSE <<SubSeq(s, 1, k - 1), SubSeq(s, k + Len(sep), Len(s))>>

\* strings.TrimSpace
RECURSIVE TrimLeft(_)
TrimLeft(s) ==
  IF Len(s) > 0 /\ IsSpace(Char(s, 1)) THEN TrimLeft(SubSeq(s, 2, Len(s)))
  ELSE s

RECURSIVE TrimRight(_)
TrimRight(s) ==
  IF Len(s) > 0 /\ IsSpace(Char(s, Len(s))) THEN TrimRight(SubSeq(s, 1, Len(s) - 1))
  ELSE s

TrimSpace(s) == TrimRight(TrimLeft(s))

\* strings.Join(a, " ")
RECURSIVE Join(_, _)
Join(a, sep) ==
  IF Len(a) = 0 THEN ""
  ELSE IF Len(a) = 1 THEN a[1]
  ELSE a[1] \o sep \o Join(Tail(a), sep)

(***************************************************************************)
(* Argument parsing, main() lines 116-161.                                 *)
(***************************************************************************)
\* Line 113; every usage error prints it.
help == "usage: depbump [-nopush|-nopr|-version VERSION] PATH [COMMAND]"

\* The configuration main() starts the loop with (lines 120-124).
InitialConfig ==
  [path |-> "", version |-> "", postCmdRaw |-> <<>>,
   push |-> TRUE, pr |-> TRUE, fatal |-> ""]

\* The loop of lines 126-157 over a = os.Args[1:], from position i on.
RECURSIVE parseLoop(_, _, _)
parseLoop(a, i, c) ==
  IF i > Len(a) THEN c
  ELSE
    LET arg == a[i] IN
    IF c.path = "" /\ HasPrefix(arg, "-") THEN
      CASE arg = "-nopush" -> parseLoop(a, i + 1, [c EXCEPT !.push = FALSE])
        [] arg = "-nopr" -> parseLoop(a, i + 1, [c EXCEPT !.pr = FALSE])
        [] arg = "-version" ->
             IF i + 1 > Len(a)
               THEN [c EXCEPT !.fatal = "fatal: not enough arguments\n" \o help]
             ELSE parseLoop(a, i + 2, [c EXCEPT !.version = a[i + 1]])
        [] OTHER -> [c EXCEPT !.fatal = "fatal: invalid argument %q\n%s\n"]
    ELSE IF c.path = "" THEN parseLoop(a, i + 1, [c EXCEPT !.path = arg])
    ELSE parseLoop(a, i + 1, [c EXCEPT !.postCmdRaw = Append(@, arg)])

\* Lines 116-157 without the empty-path check of lines 159-161.
parseArgs_noPathCheck(a) ==
  IF Len(a) < 1 THEN [InitialConfig EXCEPT !.fatal = help]
  ELSE parseLoop(a, 1, InitialConfig)

\* Lines 116-161 as a whole: fatal is the usage error main() exits with,
\* "" when the arguments are accepted.
parseArgs(a) ==
  IF Len(a) < 1 THEN [InitialConfig EXCEPT !.fatal = help]
  ELSE
    LET c == parseLoop(a, 1, InitialConfig) IN
    IF c.fatal # "" THEN c
    ELSE IF c.path = "" THEN [c EXCEPT !.fatal = "fatal: path is empty\n" \o help]
    ELSE c

(***************************************************************************)
(* net/url.Parse, as far as main() depends on it (line 197): whether it    *)
(* fails, and the Host of the result.                                      *)
(***************************************************************************)
\* strings.Cut: the part of s before the first sep (all of s without sep).
CutBefore(s, sep) ==
  LET k == Index(s, sep) IN IF k = 0 THEN s ELSE SubSeq(s, 1, k - 1)

\* net/url getScheme: splits "scheme:" off the front.
RECURSIVE getSchemeFrom(_, _)
getSchemeFrom(rawURL, i) ==
  IF i > Len(rawURL) THEN [err |-> FALSE, scheme |-> "", rest |-> rawURL]
  ELSE
    LET c == Char(rawURL, i) IN
    IF c \in Letters THEN getSchemeFrom(rawURL, i + 1)
    ELSE IF c \in Digits \cup {"+", "-", "."} THEN
      IF i = 1 THEN [err |-> FALSE, scheme |-> "", rest |-> rawURL]
      ELSE getSchemeFrom(rawURL, i + 1)
    ELSE IF c = ":" THEN
      IF i = 1 THEN [err |-> TRUE, scheme |-> "", rest |-> ""]
      ELSE [err |-> FALSE, scheme |-> SubSeq(rawURL, 1, i - 1),
            rest |-> SubSeq(rawURL, i + 1, Len(rawURL))]
    ELSE [err |-> FALSE, scheme |-> "", rest |-> rawURL]

getScheme(rawURL) == getSchemeFrom(rawURL, 1)

\* net/url validOptionalPort: "" or ":" followed by digits only.
validOptionalPort(port) ==
  \/ port = ""
  \/ /\ Char(port, 1) = ":"
     /\ \A i \in 2..Len(port) : Char(port, i) \in Digits

\* net/url unescape finds no malformed escape in s: every "%" is followed
\* by two hexadecimal digits.
validEscapes(s) ==
  \A i \in 1..Len(s) :
    Char(s, i) = "%" =>
      /\ i + 2 <= Len(s)
      /\ Char(s, i + 1) \in HexDigits
      /\ Char(s, i + 2) \in HexDigits

\* net/url unescape(s, encodeHost) succeeds: no character of HostEscaped,
\* and no escape other than %25 and %80 to %FF.
validHost(s) ==
  /\ \A i \in 1..Len(s) : Char(s, i) \notin HostEscaped
  /\ validEscapes(s)
  /\ \A i \in 1..Len(s) :
       Char(s, i) = "%" =>
         \/ SubSeq(s, i, i + 2) = "%25"
         \/ Char(s, i + 1) \notin {"0", "1", "2", "3", "4", "5", "6", "7"}

\* What unescape makes of a host or zone it accepts: %25 becomes "%".  The
\* other escapes stand for bytes that cannot be written here; a string that
\* holds one has no value.
RECURSIVE unescapeHost(_)
unescapeHost(s) ==
  IF Len(s) = 0 THEN ""
  ELSE CASE Char(s, 1) # "%" -> Char(s, 1) \o unescapeHost(SubSeq(s, 2, Len(s)))
         [] HasPrefix(s, "%25") -> "%" \o unescapeHost(SubSeq(s, 4, Len(s)))

\* Every escape of s is %25.
OnlyPercentEscaped(s) ==
  \A i \in 1..Len(s) : Char(s, i) = "%" => HasPrefix(SubSeq(s, i, Len(s)), "%25")

\* net/url parseHost for a bracketed host with a zone, which starts at the
\* first %25 before the "]" at b: the parts before the zone and from "]" on
\* are unescaped as a host, the zone by unescape(s, encodeZone).  A zone with
\* a well-formed escape other than %25 has no value.
parseZone(host, zone, b) ==
  LET host1 == SubSeq(host, 1, zone - 1)
      host2 == SubSeq(host, zone, b - 1)
      host3 == SubSeq(host, b, Len(host))
  IN
  CASE ~validHost(host1) \/ ~validHost(host3) -> [err |-> TRUE, Host |-> ""]
    [] ~validEscapes(host2) \/ (\E i \in 1..Len(host2) : Char(host2, i) \in HostEscaped) ->
         [err |-> TRUE, Host |-> ""]
    [] validHost(host1) /\ validHost(host3) /\ validEscapes(host2)
         /\ (\A i \in 1..Len(host2) : Char(host2, i) \notin HostEscaped)
         /\ OnlyPercentEscaped(host2) ->
         [err |-> FALSE,
          Host |-> unescapeHost(host1) \o unescapeHost(host2) \o unescapeHost(host3)]

\* net/url parseHost: what follows the "]" of a bracketed host, or else
\* what starts at the last ":", is an optional port; the host is then
\* unescaped.  What stands between the brackets is not examined further.
parseHost(host) ==
  LET c == LastIndex(host, ":")
      b == LastIndex(host, "]")
      bracket == HasPrefix(host, "[")
      zone == IF bracket /\ b > 0 THEN Index(SubSeq(host, 1, b - 1), "%25") ELSE 0
  IN
  IF bracket /\ b = 0 THEN [err |-> TRUE, Host |-> ""]
  ELSE IF bracket /\ ~validOptionalPort(SubSeq(host, b + 1, Len(host)))
    THEN [err |-> TRUE, Host |-> ""]
  ELSE IF ~bracket /\ c > 0 /\ ~validOptionalPort(SubSeq(host, c, Len(host)))
    THEN [err |-> TRUE, Host |-> ""]
  ELSE IF zone > 0 THEN parseZone(host, zone, b)
  ELSE IF ~validHost(host) THEN [err |-> TRUE, Host |-> ""]
  ELSE [err |-> FALSE, Host |-> unescapeHost(host)]

\* net/url validUserinfo.
validUserinfo(s) == \A i \in 1..Len(s) : Char(s, i) \in UserinfoChars

\* net/url parseAuthority: the host is what follows the last "@"; it is
\* parsed first, then the userinfo before that "@" is validated and
\* unescaped.
parseAuthority(authority) ==
  LET at   == LastIndex(authority, "@")
      host == IF at = 0 THEN authority ELSE SubSeq(authority, at + 1, Len(authority))
      userinfo == SubSeq(authority, 1, at - 1)
      h    == parseHost(host)
  IN IF h.err THEN h
     ELSE IF at > 0 /\ (~validUserinfo(userinfo) \/ ~validEscapes(userinfo))
       THEN [err |-> TRUE, Host |-> ""]
     ELSE h

\* strings.Cut: the part of s after the first sep ("" without sep).
CutAfter(s, sep) ==
  LET k == Index(s, sep) IN IF k = 0 THEN "" ELSE SubSeq(s, k + Len(sep), Len(s))

\* A failed and an empty result of net/url.Parse.
ParseError == [err |-> TRUE, Host |-> ""]
NoHost == [err |-> FALSE, Host |-> ""]

\* The end of net/url.Parse once the authority is parsed into a: setPath
\* unescapes the path p, setFragment the fragment.
setPathAndFragment(a, p, frag) ==
  IF a.err THEN a
  ELSE IF ~validEscapes(p) \/ ~validEscapes(frag) THEN ParseError
  ELSE a

\* net/url parse after the scheme and the query are split off rest: an
\* opaque URL, the colon in the first path segment, then the authority that
\* follows "//" up to the next "/".
parseRest(scheme, rest, authority, frag) ==
  IF ~HasPrefix(rest, "/") /\ scheme # "" THEN
    IF validEscapes(frag) THEN NoHost ELSE ParseError
  ELSE IF ~HasPrefix(rest, "/") /\ Contains(CutBefore(rest, "/"), ":")
    THEN ParseError
  ELSE IF (scheme # "" \/ ~HasPrefix(rest, "///")) /\ HasPrefix(rest, "//")
    THEN setPathAndFragment(parseAuthority(authority),
                            SubSeq(rest, 3 + Len(authority), Len(rest)), frag)
  ELSE setPathAndFragment(NoHost, rest, frag)

\* net/url parse from the result gs of getScheme on.
parseAfterScheme(gs, rest, frag) ==
  IF gs.err THEN ParseError
  ELSE parseRest(gs.scheme, rest, CutBefore(SubSeq(rest, 3, Len(rest)), "/"), frag)

\* net/url parse of u, the URL without its fragment: no control byte, then
\* the scheme, then the query is cut off.
parseNoFragment(u, frag) ==
  IF \E i \in 1..Len(u) : Char(u, i) \in CTLBytes THEN ParseError
  ELSE parseAfterScheme(getScheme(u), CutBefore(getScheme(u).rest, "?"), frag)

\* net/url.Parse: the fragment is cut off and the rest parsed (scheme, query,
\* authority, then setPath on what is left); setFragment comes last.
urlParse(rawURL) == parseNoFragment(CutBefore(rawURL, "#"), CutAfter(rawURL, "#"))

(***************************************************************************)
(* Origin remote analysis, main() lines 193-224.                           *)
(***************************************************************************)
\* What the Go runtime writes when line 208 indexes past the end of sshParts.
IndexPanic == "panic: runtime error: index out of range [1] with length 1"

\* What lines 193-224 decide from the output of `git remote get-url origin`,
\* the dependency path, the pr flag so far and the value of GITHUB_TOKEN:
\* the message main() ends with ("" when it goes on), whether it ended by a
\* panic (url.Parse failed and rawURL has a single "@" but no ":", so that
\* sshParts[1] of line 208 does not exist) and not by fatalf, the new pr
\* flag, remoteOwner and remoteRepo.
checkOrigin(out, path, pr, tok) ==
  LET rawURL    == TrimSpace(out)
      remoteURL == urlParse(rawURL)
      sshParts  == SplitN2(rawURL, ":")
      userHost  == Split(sshParts[1], "@")
      sshBad    == remoteURL.err /\ Len(userHost) # 2
      host      == IF remoteURL.err THEN userHost[2] ELSE remoteURL.Host
      uri       == IF remoteURL.err THEN sshParts[2] ELSE path
      ownerRepo == Split(uri, "/")
  IN
  IF sshBad
    THEN [fatal |-> "fatal: error parsing remote URL: %s", panic |-> FALSE,
          pr |-> pr, remoteOwner |-> "", remoteRepo |-> ""]
  ELSE IF remoteURL.err /\ Len(sshParts) < 2
    THEN [fatal |-> IndexPanic, panic |-> TRUE,
          pr |-> pr, remoteOwner |-> "", remoteRepo |-> ""]
  ELSE IF host # "github.com" \/ tok = ""
    THEN [fatal |-> "", panic |-> FALSE, pr |-> FALSE,
          remoteOwner |-> "", remoteRepo |-> ""]
  ELSE IF Len(ownerRepo) # 2
    THEN [fatal |-> "fatal: expected repo remote URI to follow OWNER/REPO format",
          panic |-> FALSE, pr |-> pr, remoteOwner |-> "", remoteRepo |-> ""]
  ELSE [fatal |-> "", panic |-> FALSE, pr |-> pr, remoteOwner |-> ownerRepo[1],
        remoteRepo |-> TrimSuffix(ownerRepo[2], ".git")]

(***************************************************************************)
(* pkgVersion, lines 91-111: the scan of the Require list.                 *)
(***************************************************************************)
RECURSIVE pkgVersionFrom(_, _, _)
pkgVersionFrom(require, path, i) ==
  IF i > Len(require) THEN [found |-> FALSE, version |-> ""]
  ELSE IF require[i].Path = path THEN [found |-> TRUE, version |-> require[i].Version]
  ELSE pkgVersionFrom(require, path, i + 1)

\* Line 104 matching a requirement whose path starts with path, and the scan
\* of lines 103-107 with it.
RECURSIVE pkgVersionFrom_prefix(_, _, _)
pkgVersionFrom_prefix(require, path, i) ==
  IF i > Len(require) THEN [found |-> FALSE, version |-> ""]
  ELSE IF HasPrefix(require[i].Path, path)
    THEN [found |-> TRUE, version |-> require[i].Version]
  ELSE pkgVersionFrom_prefix(require, path, i + 1)

pkgVersion_prefix(require, path) == pkgVersionFrom_prefix(require, path, 1)

pkgVersion(require, path) == pkgVersionFrom(require, path, 1)

(***************************************************************************)
(* The templating context, lines 267-296.                                  *)
(***************************************************************************)
\* regexp `^v\d+\.\d+\.\d+$` of line 277.
vreMatch(s) ==
  /\ HasPrefix(s, "v")
  /\ LET parts == Split(SubSeq(s, 2, Len(s)), ".") IN
     /\ Len(parts) = 3
     /\ \A k \in 1..3 :
          /\ Len(parts[k]) > 0
          /\ \A i \in 1..Len(parts[k]) : Char(parts[k], i) \in Digits

\* Line 232: the argument of `go get`.
targetOf(path, version) == IF version # "" THEN path \o "@" \o version ELSE path

\* Lines 269-270.
projectOf(path) == LET pathSplit == Split(path, "/") IN pathSplit[Len(pathSplit)]

\* Lines 277-280: the Version field.
dataVersion(newVersion) ==
  IF vreMatch(newVersion) THEN SubSeq(newVersion, 2, Len(newVersion)) ELSE ""

\* Lines 282-296 taking the first hyphen-delimited segment of a
\* pseudo-version instead of the last.
dataURL_first(path, newVersion) ==
  LET pathSplit == Split(path, "/")
      s         == Split(newVersion, "-")
      tree      == IF vreMatch(newVersion) THEN newVersion ELSE s[1]
  IN IF pathSplit[1] = "github.com" THEN "https://" \o path \o "/tree/" \o tree
     ELSE ""

\* Lines 282-296: the URL field.
dataURL(path, newVersion) ==
  LET pathSplit == Split(path, "/")
      s         == Split(newVersion, "-")
      tree      == IF vreMatch(newVersion) THEN newVersion ELSE s[Len(s)]
  IN IF pathSplit[1] = "github.com" THEN "https://" \o path \o "/tree/" \o tree
     ELSE ""

\* Lines 271-276 with skipVendor stored as the Vendor flag without the
\* negation of line 275.
buildData_vendorNotNegated(path, target, newVersion, skipVendor) ==
  [Project |-> projectOf(path),
   Owner   |-> "",
   Version |-> dataVersion(newVersion),
   Target  |-> target,
   Path    |-> path,
   URL     |-> dataURL(path, newVersion),
   Vendor  |-> skipVendor]

\* Lines 271-296: commitTemplateData; Owner is never assigned.
buildData(path, target, newVersion, skipVendor) ==
  [Project |-> projectOf(path),
   Owner   |-> "",
   Version |-> dataVersion(newVersion),
   Target  |-> target,
   Path    |-> path,
   URL     |-> dataURL(path, newVersion),
   Vendor  |-> ~skipVendor]

\* Line 332 with the human-readable version in place of the raw one.
branchName_human(path, newVersion) ==
  "update-" \o projectOf(path) \o "-" \o dataVersion(newVersion)

\* Line 332.
branchName(path, newVersion) == "update-" \o projectOf(path) \o "-" \o newVersion

(***************************************************************************)
(* html/template rendering: the commit message (lines 29-49, 360-363) and  *)
(* the post-update command tokens (lines 302-315).                         *)
(***************************************************************************)
\* html/template's escaper for a value printed in text context.
RECURSIVE htmlEscape(_)
htmlEscape(s) ==
  IF Len(s) = 0 THEN ""
  ELSE
    LET c == Char(s, 1)
        e == CASE c = "\"" -> "&#34;"
               [] c = "&"  -> "&amp;"
               [] c = "'"  -> "&#39;"
               [] c = "+"  -> "&#43;"
               [] c = "<"  -> "&lt;"
               [] c = ">"  -> "&gt;"
               [] OTHER    -> c
    IN e \o htmlEscape(SubSeq(s, 2, Len(s)))

\* The commit template of lines 29-49 executed on data.
renderCommit(data) ==
  "modules: upgrade " \o htmlEscape(data.Project) \o " to " \o htmlEscape(data.Version)
  \o "\n\nThis updates:\n  " \o htmlEscape(data.Path)
  \o "\n\nTo version " \o htmlEscape(data.Version) \o "."
  \o "\n\nExecuted via:\n\n  go get " \o htmlEscape(data.Target)
  \o "\n  go mod tidy\n"
  \o (IF data.Vendor THEN "  go mod vendor" ELSE "")
  \o "\n\nFor details on changes, see the project's release page.\n"
  \o (IF data.URL # "" THEN "  " \o htmlEscape(data.URL) ELSE "")
  \o "\n\nThis commit message was auto-generated."

\* The value the action {{name}} prints when name is a "." and an
\* identifier: that of the field of commitTemplateData so named; Execute
\* fails on a name that is none of its fields.
fieldValue(data, name) ==
  CASE name = ".Project" -> [err |-> FALSE, val |-> data.Project]
    [] name = ".Owner"   -> [err |-> FALSE, val |-> data.Owner]
    [] name = ".Version" -> [err |-> FALSE, val |-> data.Version]
    [] name = ".Target"  -> [err |-> FALSE, val |-> data.Target]
    [] name = ".Path"    -> [err |-> FALSE, val |-> data.Path]
    [] name = ".URL"     -> [err |-> FALSE, val |-> data.URL]
    [] name = ".Vendor"  -> [err |-> FALSE, val |-> IF data.Vendor THEN "true" ELSE "false"]
    [] OTHER             -> [err |-> TRUE, val |-> ""]

\* text/template leftTrimLength and rightTrimLength applied: s without its
\* leading, and without its trailing, characters of ActionSpace.
RECURSIVE TrimActionLeft(_)
TrimActionLeft(s) ==
  IF Len(s) > 0 /\ Char(s, 1) \in ActionSpace
    THEN TrimActionLeft(SubSeq(s, 2, Len(s)))
    ELSE s

RECURSIVE TrimActionRight(_)
TrimActionRight(s) ==
  IF Len(s) > 0 /\ Char(s, Len(s)) \in ActionSpace
    THEN TrimActionRight(SubSeq(s, 1, Len(s) - 1))
    ELSE s

\* What stands inside an action, without the spaces the text/template lexer
\* skips around it.
TrimAction(s) == TrimActionRight(TrimActionLeft(s))

\* text/template hasLeftTrimMarker: s, which follows "{{", starts with "-"
\* and a space.
hasLeftTrimMarker(s) ==
  Len(s) >= 2 /\ Char(s, 1) = "-" /\ Char(s, 2) \in ActionSpace

\* text/template hasRightTrimMarker at the end of s, which precedes "}}": a
\* space and "-".
hasRightTrimMarker(s) ==
  Len(s) >= 2 /\ Char(s, Len(s)) = "-" /\ Char(s, Len(s) - 1) \in ActionSpace

\* name is a "." and an identifier (text/template lexField).
IsField(name) ==
  /\ Len(name) >= 2
  /\ Char(name, 1) = "."
  /\ Char(name, 2) \in Letters \cup {"_"}
  /\ \A i \in 3..Len(name) : Char(name, i) \in Letters \cup Digits \cup {"_"}

UpperCase == "ABCDEFGHIJKLMNOPQRSTUVWXYZ"

LowerCase == "abcdefghijklmnopqrstuvwxyz"

\* The position of ch in the alphabet abc, 0 when it is not in it.
PosIn(abc, ch) ==
  IF \E i \in 1..Len(abc) : Char(abc, i) = ch
    THEN CHOOSE i \in 1..Len(abc) : Char(abc, i) = ch
    ELSE 0

\* bytes.ToUpper and strings.ToLower on ASCII text.
RECURSIVE ToUpper(_)
ToUpper(s) ==
  IF Len(s) = 0 THEN ""
  ELSE LET k == PosIn(LowerCase, Char(s, 1)) IN
       (IF k > 0 THEN Char(UpperCase, k) ELSE Char(s, 1)) \o ToUpper(SubSeq(s, 2, Len(s)))

RECURSIVE ToLower(_)
ToLower(s) ==
  IF Len(s) = 0 THEN ""
  ELSE LET k == PosIn(UpperCase, Char(s, 1)) IN
       (IF k > 0 THEN Char(LowerCase, k) ELSE Char(s, 1)) \o ToLower(SubSeq(s, 2, Len(s)))

\* html/template eatTagName past the first letter: the position after the
\* tag name that goes on at j.
RECURSIVE eatTagName(_, _)
eatTagName(s, j) ==
  IF j > Len(s) THEN j
  ELSE IF Char(s, j) \in Letters \cup Digits THEN eatTagName(s, j + 1)
  ELSE IF /\ Char(s, j) \in {":", "-"}
          /\ j + 1 <= Len(s)
          /\ Char(s, j + 1) \in Letters \cup Digits
    THEN eatTagName(s, j + 2)
  ELSE j

\* Elements whose content html/template does not read as HTML text.
RawTextElements == {"script", "style", "textarea", "title"}

\* s starts with "<" and a tag name, or with "</" and a tag name.
IsTagStart(s) ==
  /\ Len(s) >= 2
  /\ \/ Char(s, 2) \in Letters
     \/ Char(s, 2) = "/" /\ Len(s) >= 3 /\ Char(s, 3) \in Letters

\* x before the text r stands for, unless r is an error.
Before(x, r) == IF r.err THEN r ELSE [err |-> FALSE, out |-> x \o r.out]

\* html/template on a text node that starts outside any tag; final says
\* that no action follows the node.  A "<" that opens no tag, no comment and
\* no <!DOCTYPE is written as "&lt;"; a comment is dropped; a tag without
\* attribute values is copied; a quote or "<" among attribute names, and a
\* tag or comment still open at the end of the template, make Execute fail.
\* Not covered, and without a value here: tags with "=" (attribute values),
\* the content of script, style, textarea and title, and an action inside a
\* tag or a comment.
RECURSIVE escapeText(_, _)
escapeText(s, final) ==
  IF Len(s) = 0 THEN [err |-> FALSE, out |-> ""]
  ELSE
    LET rest(k) == escapeText(SubSeq(s, k, Len(s)), final) IN
    CASE Char(s, 1) # "<" -> Before(Char(s, 1), rest(2))
      [] HasPrefix(s, "<!--") ->
           LET e == IndexFrom(s, "-->", 5) IN
           (CASE e > 0 -> rest(e + 3)
              [] e = 0 /\ final -> [err |-> TRUE, out |-> ""])
      [] Char(s, 1) = "<" /\ IsTagStart(s) ->
           LET end  == Char(s, 2) = "/"
               n0   == IF end THEN 3 ELSE 2
               j    == eatTagName(s, n0 + 1)
               name == ToLower(SubSeq(s, n0, j - 1))
               g    == IndexFrom(s, ">", j)
               span == SubSeq(s, j, IF g = 0 THEN Len(s) ELSE g - 1)
               bad  == \E i \in 1..Len(span) : Char(span, i) \in {"'", "\"", "<"}
           IN (CASE ~Contains(span, "=") /\ bad -> [err |-> TRUE, out |-> ""]
                 [] ~Contains(span, "=") /\ ~bad /\ g = 0 /\ final ->
                      [err |-> TRUE, out |-> ""]
                 [] ~Contains(span, "=") /\ ~bad /\ g > 0
                      /\ (end \/ name \notin RawTextElements) ->
                      Before(SubSeq(s, 1, g), rest(g + 1)))
      [] OTHER ->
           IF HasPrefix(ToUpper(s), "<!DOCTYPE")
             THEN Before("<", rest(2))
             ELSE Before("&lt;", rest(2))

\* Lines 305-314 for what is left, c, of one token; lead says that the
\* action before c ended with a trim marker.  The text is literal text
\* between tags; an action is a field {{.Field}} or a comment {{/* */}}, with
\* or without trim markers.  Any other action (a pipeline, a function call, a
\* literal, {{.}}, if, range, with and so on) is not covered, and a token
\* that holds one has no value here.
RECURSIVE renderFrom(_, _, _)
renderFrom(c, data, lead) ==
  LET open == Index(c, "{{") IN
  IF open = 0 THEN escapeText(IF lead THEN TrimActionLeft(c) ELSE c, TRUE)
  ELSE
    LET after  == SubSeq(c, open + 2, Len(c))
        left   == hasLeftTrimMarker(after)
        start  == IF left THEN SubSeq(after, 3, Len(after)) ELSE after
        before == SubSeq(c, 1, open - 1)
        led    == IF lead THEN TrimActionLeft(before) ELSE before
        text   == escapeText(IF left THEN TrimActionRight(led) ELSE led, FALSE)
        Fail   == [err |-> TRUE, out |-> ""]
        Then(val, tail, trim) ==
          LET rest == renderFrom(tail, data, trim) IN
          IF text.err \/ rest.err THEN Fail
          ELSE [err |-> FALSE, out |-> text.out \o val \o rest.out]
    IN
    IF HasPrefix(start, "/*") THEN
      LET e    == IndexFrom(start, "*/", 3)
          tail == SubSeq(start, e + 2, Len(start))
      IN IF e = 0 THEN Fail
         ELSE IF HasPrefix(tail, "}}") THEN Then("", SubSeq(tail, 3, Len(tail)), FALSE)
         ELSE IF /\ Len(tail) >= 4
                 /\ hasRightTrimMarker(SubSeq(tail, 1, 2))
                 /\ SubSeq(tail, 3, 4) = "}}"
           THEN Then("", SubSeq(tail, 5, Len(tail)), TRUE)
         ELSE Fail
    ELSE
      LET close == IndexFrom(start, "}}", 1) IN
      IF close = 0 THEN Fail
      ELSE
        LET inner == SubSeq(start, 1, close - 1)
            right == hasRightTrimMarker(inner)
            name  == TrimAction(IF right THEN SubSeq(inner, 1, Len(inner) - 2) ELSE inner)
            f     == fieldValue(data, name)
            tail  == SubSeq(start, close + 2, Len(start))
        IN CASE IsField(name) /\ f.err -> Fail
             [] IsField(name) /\ ~f.err -> Then(htmlEscape(f.val), tail, right)

\* Lines 305-314 for one token c.
renderTemplate(c, data) == renderFrom(c, data, FALSE)

\* Lines 302-315: every token rendered; err when any token fails.
RECURSIVE renderPostCmd(_, _)
renderPostCmd(raw, data) ==
  IF Len(raw) = 0 THEN [err |-> FALSE, cmd |-> <<>>]
  ELSE
    LET h == renderTemplate(raw[1], data)
        t == renderPostCmd(Tail(raw), data)
    IN IF h.err \/ t.err THEN [err |-> TRUE, cmd |-> <<>>]
       ELSE [err |-> FALSE, cmd |-> <<h.out>> \o t.cmd]

\* Line 366: strings.SplitN(message, "\n\n", 2).
titleBodyOf(message) == SplitN2(message, "\n\n")

\* Line 404: the pull request endpoint.
prEndpoint(owner, repo) ==
  "https://api.github.com/repos/" \o owner \o "/" \o repo \o "/pulls"

(***************************************************************************)
(* Inputs: the command line, the environment and the repository.           *)
(***************************************************************************)
\* Words a command line is made of.
Tokens ==
  {"-nopush", "-nopr", "-version", "-token", "BUMP_TOKEN",
   "github.com/foo/bar", "github.com/foo", "gopkg.in/yaml.v2", "v1.3.0",
   "{{.Version}}"}

\* Words of the post-update commands tried: a template action, and a word
\* that would be a flag if it came before the dependency path.
PostCmdTokens == {"{{.Version}}", "-nopush"}

\* Values tried for -version: a version, and a word that would be a flag if
\* it did not follow -version.
VersionTokens == {"v1.3.0", "-nopr"}

\* os.Args[1:]
ArgLists ==
  {a \in UNION {[1..n -> Tokens] : n \in 0..MaxArgs} :
     LET c == parseLoop(a, 1, InitialConfig) IN
     /\ Len(c.postCmdRaw) <= MaxPostCmd
     /\ \A k \in DOMAIN c.postCmdRaw : c.postCmdRaw[k] \in PostCmdTokens
     /\ c.version \in VersionTokens \cup {""}}

\* Versions `go get` can resolve a dependency to.
Versions == {"v1.2.0", "v1.3.0", "v0.0.0-20230101000000-abcdef123456"}

\* The Require list of go.mod before the run.
InitialGoMods ==
  {<<[Path |-> "github.com/foo/bar", Version |-> "v1.2.0"],
     [Path |-> "gopkg.in/yaml.v2", Version |-> "v1.3.0"]>>}

\* Values of the GITHUB_TOKEN environment variable.
TokenValues == {"", "t0ken"}

\* What `git remote get-url origin` can print.
RemoteOutputs ==
  {"https://github.com/acme/app.git\n",
   "git@github.com:acme/app.git\n",
   "git@github.com:acme/app\n",
   "git@gitlab.com:acme/app.git\n",
   "/srv/git/app.git\n",
   ":acme/app\n",
   "git@github.com\tacme/app.git\n",
   "git@github.com:ac\tme/app.git\n"}

\* What `git status --porcelain` can print.
StatusOutputs == {"", " M go.sum\n"}

\* The branch checked out before the run.
InitialBranches == {"master", "HEAD"}

\* What `git rev-parse --abbrev-ref HEAD` prints when no branch is checked
\* out (a detached HEAD, the usual state of a CI checkout).
DetachedHead == "HEAD"

\* What is checked out after a successful `git checkout name` (line 383):
\* `git checkout HEAD` switches nothing.
afterCheckout(cur, name) == IF name = DetachedHead THEN cur ELSE name

\* http.StatusCreated, the only status line 431 accepts.
StatusCreated == 201

\* The html_url member of a created pull request.
ResponseURL == "https://github.com/acme/app/pull/7"

\* Responses of the GitHub API to the pull request POST: the status code,
\* whether reading the body failed, whether the Content-Type is
\* "application/json; charset=utf-8", whether the body unmarshals into a JSON
\* object, and its html_url member: "absent", a "string" (ResponseURL) or a
\* value of some "other" JSON type.  Only what main() can tell apart is
\* told apart: a body that was not read or not parsed has no members.
Responses ==
  {r \in [status : {StatusCreated, 422}, readErr : BOOLEAN, json : BOOLEAN,
          wellFormed : BOOLEAN, urlKind : {"absent", "string", "other"}] :
     /\ r.readErr => ~r.json
     /\ r.wellFormed => r.json
     /\ r.urlKind # "absent" => r.wellFormed}

(***************************************************************************)
(* State.                                                                  *)
(***************************************************************************)
VARIABLES
  args,         \* os.Args[1:]
  token,        \* value of the environment variable GITHUB_TOKEN
  startHead,    \* what was checked out in the repository when main() began
  headGoMod,    \* Require list of go.mod in the commit checked out at that time
  gomod,        \* Require list of go.mod
  curBranch,    \* branch checked out in the repository
  pc,           \* position of main()
  path, version, postCmdRaw, push, pr,      \* lines 120-124
  oldVersion, newVersion,                   \* lines 180, 239
  remoteOwner, remoteRepo,                  \* line 186
  target,                                   \* line 230
  vendorStat,                               \* line 252: what os.Stat reported
  skipVendor,                               \* line 251
  data,                                     \* line 271
  oldBranch, branch,                        \* lines 329, 332
  titleBody,                                \* line 366
  payload,                                  \* line 392
  prURL,                                    \* line 388
  resp,                                     \* line 413
  exitCode,     \* -1 while main() runs, then the process exit code
  stderr,       \* what fatal or fatalf wrote (format arguments not expanded)
  log           \* external commands and HTTP requests invoked so far

envVars   == <<args, token, startHead, headGoMod>>
cfgVars   == <<path, version, postCmdRaw, push>>
verVars   == <<oldVersion, newVersion>>
originVars == <<remoteOwner, remoteRepo>>
commitVars == <<target, vendorStat, skipVendor, data, oldBranch, branch, titleBody>>
prVars    == <<payload, prURL, resp>>

vars ==
  <<args, token, startHead, headGoMod, gomod, curBranch, pc, path, version, postCmdRaw, push, pr,
    oldVersion, newVersion, remoteOwner, remoteRepo, target, vendorStat,
    skipVendor, data, oldBranch, branch, titleBody, payload, prURL, resp,
    exitCode, stderr, log>>

\* The zero value of commitTemplateData.
ZeroData ==
  [Project |-> "", Owner |-> "", Version |-> "", Target |-> "", Path |-> "",
   URL |-> "", Vendor |-> FALSE]

ZeroPayload == [title |-> "", body |-> "", head |-> "", base |-> ""]

\* resp before any response has arrived.
NoResponse ==
  [status |-> 0, readErr |-> FALSE, json |-> FALSE, wellFormed |-> FALSE,
   urlKind |-> "absent"]

Init ==
  /\ args \in ArgLists
  /\ token \in TokenValues
  /\ gomod \in InitialGoMods
  /\ headGoMod = gomod
  /\ curBranch \in InitialBranches
  /\ startHead = curBranch
  /\ pc = "args"
  /\ path = "" /\ version = "" /\ postCmdRaw = <<>> /\ push = TRUE /\ pr = TRUE
  /\ oldVersion = "" /\ newVersion = ""
  /\ remoteOwner = "" /\ remoteRepo = ""
  /\ target = "" /\ vendorStat = "" /\ skipVendor = FALSE /\ data = ZeroData
  /\ oldBranch = "" /\ branch = "" /\ titleBody = <<>>
  /\ payload = ZeroPayload /\ prURL = "" /\ resp = NoResponse
  /\ exitCode = -1
  /\ stderr = ""
  /\ log = <<>>

\* fatal and fatalf, lines 78-89.
Fatal(msg) == pc' = "exited" /\ exitCode' = 1 /\ stderr' = msg

\* A run-time panic: the Go runtime writes the message and exits with code 2.
Panic(msg) == pc' = "exited" /\ exitCode' = 2 /\ stderr' = msg

\* os.Exit(code) and the return from main().
Exit(code) == pc' = "exited" /\ exitCode' = code /\ stderr' = stderr

Goto(label) == pc' = label /\ exitCode' = exitCode /\ stderr' = stderr

\* err.Error() of a failed external command.
ExecError == "exit status 1"

\* An external command was started; err is whether it failed, out its stdout.
Invoke(cmd, err, out) == log' = Append(log, [cmd |-> cmd, err |-> err, out |-> out])

(***************************************************************************)
(* main(), one action per step.                                            *)
(***************************************************************************)
\* Lines 116-161.
ParseArgs ==
  /\ pc = "args"
  /\ LET c == parseArgs(args) IN
     IF c.fatal # ""
       THEN /\ Fatal(c.fatal)
            /\ UNCHANGED <<cfgVars, pr>>
       ELSE /\ path' = c.path /\ version' = c.version
            /\ postCmdRaw' = c.postCmdRaw /\ push' = c.push /\ pr' = c.pr
            /\ Goto("pretidy")
  /\ UNCHANGED <<envVars, gomod, curBranch, verVars, originVars, commitVars, prVars, log>>

\* Lines 166-168.
PreTidy ==
  /\ pc = "pretidy"
  /\ \E err \in BOOLEAN :
       /\ Invoke(<<"go", "mod", "tidy">>, err, "")
       /\ IF err THEN Fatal(ExecError) ELSE Goto("status")
  /\ UNCHANGED <<envVars, gomod, curBranch, cfgVars, pr, verVars, originVars, commitVars, prVars>>

\* Line 176 with the comparison inverted.
treeDirty_inverted(out) == Len(out) = 0

\* Line 176.
treeDirty(out) == Len(out) > 0

\* Lines 171-178.
StatusProbe ==
  /\ pc = "status"
  /\ \/ /\ Invoke(<<"git", "status", "--porcelain">>, TRUE, "")
        /\ Fatal(ExecError)
     \/ \E out \in StatusOutputs :
          /\ Invoke(<<"git", "status", "--porcelain">>, FALSE, out)
          /\ IF treeDirty(out)
               THEN Fatal("fatal: uncommitted changes in repository, please commit or stash before continuing")
               ELSE Goto("oldVersion")
  /\ UNCHANGED <<envVars, gomod, curBranch, cfgVars, pr, verVars, originVars, commitVars, prVars>>

\* Line 181 comparing against the `go get` target instead of the version.
alreadyPinned_target(old, requested) == old = "@" \o requested

\* Line 181.
alreadyPinned(old, requested) == old = requested

\* Lines 180-183, with pkgVersion (lines 92-111).
ReadOldVersion ==
  /\ pc = "oldVersion"
  /\ \/ /\ Invoke(<<"go", "mod", "edit", "-json">>, TRUE, "")
        /\ Fatal(ExecError)
        /\ UNCHANGED verVars
     \/ /\ Invoke(<<"go", "mod", "edit", "-json">>, FALSE, "")
        /\ LET r == pkgVersion(gomod, path) IN
           IF ~r.found
             THEN /\ Fatal("package %q not found in go.mod, cannot get version\n")
                  /\ UNCHANGED verVars
             ELSE /\ oldVersion' = r.version
                  /\ newVersion' = newVersion
                  /\ IF alreadyPinned(r.version, version)
                       THEN Fatal("fatal: package %s is already at version %s\n")
                       ELSE Goto("origin")
  /\ UNCHANGED <<envVars, gomod, curBranch, cfgVars, pr, originVars, commitVars, prVars>>

\* Lines 186-227.
CheckOrigin ==
  /\ pc = "origin"
  /\ IF push
       THEN \/ /\ Invoke(<<"git", "remote", "get-url", "origin">>, TRUE, "")
               /\ Fatal(ExecError)
               /\ UNCHANGED <<pr, originVars>>
            \/ \E out \in RemoteOutputs :
                 /\ Invoke(<<"git", "remote", "get-url", "origin">>, FALSE, out)
                 /\ LET r == checkOrigin(out, path, pr, token) IN
                    /\ pr' = r.pr
                    /\ remoteOwner' = r.remoteOwner
                    /\ remoteRepo' = r.remoteRepo
                    /\ IF r.panic THEN Panic(r.fatal)
                       ELSE IF r.fatal # "" THEN Fatal(r.fatal)
                       ELSE Goto("goget")
       ELSE /\ pr' = FALSE
            /\ Goto("goget")
            /\ UNCHANGED <<originVars, log>>
  /\ UNCHANGED <<envVars, gomod, curBranch, cfgVars, verVars, commitVars, prVars>>

\* go.mod after `go get` resolved the dependency p to version v.
withVersion(require, p, v) ==
  [i \in 1..Len(require) |->
     IF require[i].Path = p THEN [require[i] EXCEPT !.Version = v] ELSE require[i]]

\* Lines 230-237.
GoGet ==
  /\ pc = "goget"
  /\ target' = targetOf(path, version)
  /\ \/ /\ Invoke(<<"go", "get", target'>>, TRUE, "")
        /\ Fatal(ExecError)
        /\ UNCHANGED gomod
     \/ \E v \in Versions :
          /\ Invoke(<<"go", "get", target'>>, FALSE, "")
          /\ gomod' = withVersion(gomod, path, v)
          /\ Goto("newVersion")
  /\ UNCHANGED <<envVars, curBranch, cfgVars, pr, verVars, originVars,
                 vendorStat, skipVendor, data, oldBranch, branch, titleBody, prVars>>

\* Line 617: the early revision ends this case through fatalf.
alreadyCurrentExit_fatal == 1

\* Line 242: the exit code when the version did not change.
alreadyCurrentExit == 0

\* Line 240 with the comparison inverted.
versionUnchanged_inverted(old, new) == old # new

\* Line 240.
versionUnchanged(old, new) == old = new

\* Lines 239-243, with pkgVersion (lines 92-111).
ReadNewVersion ==
  /\ pc = "newVersion"
  /\ \/ /\ Invoke(<<"go", "mod", "edit", "-json">>, TRUE, "")
        /\ Fatal(ExecError)
        /\ UNCHANGED verVars
     \/ /\ Invoke(<<"go", "mod", "edit", "-json">>, FALSE, "")
        /\ LET r == pkgVersion(gomod, path) IN
           IF ~r.found
             THEN /\ Fatal("package %q not found in go.mod, cannot get version\n")
                  /\ UNCHANGED verVars
             ELSE /\ newVersion' = r.version
                  /\ oldVersion' = oldVersion
                  /\ IF versionUnchanged(oldVersion, r.version)
                       THEN Exit(alreadyCurrentExit)
                       ELSE Goto("tidy")
  /\ UNCHANGED <<envVars, gomod, curBranch, cfgVars, pr, originVars, commitVars, prVars>>

\* Lines 246-248.
Tidy ==
  /\ pc = "tidy"
  /\ \E err \in BOOLEAN :
       /\ Invoke(<<"go", "mod", "tidy">>, err, "")
       /\ IF err THEN Fatal(ExecError) ELSE Goto("vendor")
  /\ UNCHANGED <<envVars, gomod, curBranch, cfgVars, pr, verVars, originVars, commitVars, prVars>>

\* Lines 251-265: stat is what os.Stat("vendor/modules.txt") reports.
VendorSync ==
  /\ pc = "vendor"
  /\ \E stat \in {"exists", "notexist", "error"} :
       /\ vendorStat' = stat
       /\ CASE stat = "error" ->
                /\ Fatal("stat vendor/modules.txt: permission denied")
                /\ UNCHANGED <<skipVendor, log>>
           [] stat = "notexist" ->
                /\ skipVendor' = TRUE
                /\ Goto("data")
                /\ UNCHANGED log
           [] stat = "exists" ->
                /\ skipVendor' = FALSE
                /\ \E err \in BOOLEAN :
                     /\ Invoke(<<"go", "mod", "vendor">>, err, "")
                     /\ IF err THEN Fatal(ExecError) ELSE Goto("data")
  /\ UNCHANGED <<envVars, gomod, curBranch, cfgVars, pr, verVars, originVars,
                 target, data, oldBranch, branch, titleBody, prVars>>

\* The commit phase in the order the spec gives it: branched, staged,
\* post-command, committed.
stepAfter_postCmdStaged ==
  [data |-> "revparse", revparse |-> "lsremote", lsremote |-> "checkout",
   checkout |-> "add", add |-> "postCmd", postCmd |-> "commit",
   commit |-> "push", push |-> "restore", restore |-> "pr"]

\* Lines 267-385: the step main() goes on to when a step of the commit
\* phase succeeds (ls-remote: when origin has no such branch).
stepAfter ==
  [data |-> "postCmd", postCmd |-> "revparse", revparse |-> "lsremote",
   lsremote |-> "checkout", checkout |-> "add", add |-> "commit",
   commit |-> "push", push |-> "restore", restore |-> "pr"]

\* Lines 269-296.
BuildData ==
  /\ pc = "data"
  /\ data' = buildData(path, target, newVersion, skipVendor)
  /\ Goto(stepAfter.data)
  /\ UNCHANGED <<envVars, gomod, curBranch, cfgVars, pr, verVars, originVars,
                 target, vendorStat, skipVendor, oldBranch, branch, titleBody, prVars, log>>

\* Lines 299-321.
PostCommand ==
  /\ pc = "postCmd"
  /\ IF Len(postCmdRaw) > 0
       THEN LET r == renderPostCmd(postCmdRaw, data) IN
            IF r.err
              THEN Fatal("error building post-update command: %s\n") /\ UNCHANGED log
              ELSE \E err \in BOOLEAN :
                     /\ Invoke(r.cmd, err, "")
                     /\ IF err THEN Fatal("error running post-update command: %s\n")
                        ELSE Goto(stepAfter.postCmd)
       ELSE Goto(stepAfter.postCmd) /\ UNCHANGED log
  /\ UNCHANGED <<envVars, gomod, curBranch, cfgVars, pr, verVars, originVars, commitVars, prVars>>

\* Lines 324-329.
GetBranch ==
  /\ pc = "revparse"
  /\ \/ /\ Invoke(<<"git", "rev-parse", "--abbrev-ref", "HEAD">>, TRUE, "")
        /\ Fatal(ExecError)
        /\ UNCHANGED oldBranch
     \/ LET out == curBranch \o "\n" IN
        /\ Invoke(<<"git", "rev-parse", "--abbrev-ref", "HEAD">>, FALSE, out)
        /\ oldBranch' = TrimSpace(out)
        /\ Goto(stepAfter.revparse)
  /\ UNCHANGED <<envVars, gomod, curBranch, cfgVars, pr, verVars, originVars,
                 target, vendorStat, skipVendor, data, branch, titleBody, prVars>>

\* Line 341 testing the query's error output instead of its standard output.
remoteBranchExists_never(out) == Len(SubSeq(out, 1, 0)) > 0

\* Line 341.
remoteBranchExists(out) == Len(out) > 0

\* Lines 332-343: the branch name and the query of origin for it.
LsRemote ==
  /\ pc = "lsremote"
  /\ branch' = branchName(path, newVersion)
  /\ \/ /\ Invoke(<<"git", "ls-remote", "--heads", "origin", branch'>>, TRUE, "")
        /\ Fatal("fatal: error checking for remote branch: %s\n")
     \/ \E out \in {"", "0a1b2c3\trefs/heads/" \o branch' \o "\n"} :
          /\ Invoke(<<"git", "ls-remote", "--heads", "origin", branch'>>, FALSE, out)
          /\ IF remoteBranchExists(out) THEN Goto("reset") ELSE Goto(stepAfter.lsremote)
  /\ UNCHANGED <<envVars, gomod, curBranch, cfgVars, pr, verVars, originVars,
                 target, vendorStat, skipVendor, data, oldBranch, titleBody, prVars>>

\* Lines 345-350: a reset that succeeds puts the work tree, go.mod included,
\* back to the commit that is checked out.
ResetHard ==
  /\ pc = "reset"
  /\ \E err \in BOOLEAN :
       /\ Invoke(<<"git", "reset", "--hard", "HEAD">>, err, "")
       /\ IF err
            THEN /\ Fatal("fatal: could not reset repository back to original state: %s\n")
                 /\ UNCHANGED gomod
            ELSE Exit(0) /\ gomod' = headGoMod
  /\ UNCHANGED <<envVars, curBranch, cfgVars, pr, verVars, originVars, commitVars, prVars>>

\* Lines 353-355.
CheckoutNew ==
  /\ pc = "checkout"
  /\ \E err \in BOOLEAN :
       /\ Invoke(<<"git", "checkout", "-b", branch>>, err, "")
       /\ IF err THEN Fatal(ExecError) /\ UNCHANGED curBranch
          ELSE Goto(stepAfter.checkout) /\ curBranch' = branch
  /\ UNCHANGED <<envVars, gomod, cfgVars, pr, verVars, originVars, commitVars, prVars>>

\* Lines 356-358 with the result of `git add --all` left unchecked.
AddAll_unchecked ==
  /\ pc = "add"
  /\ \E err \in BOOLEAN :
       /\ Invoke(<<"git", "add", "--all">>, err, "")
       /\ Goto(stepAfter.add)
  /\ UNCHANGED <<envVars, gomod, curBranch, cfgVars, pr, verVars, originVars, commitVars, prVars>>

\* Lines 356-358.
AddAll ==
  /\ pc = "add"
  /\ \E err \in BOOLEAN :
       /\ Invoke(<<"git", "add", "--all">>, err, "")
       /\ IF err THEN Fatal(ExecError) ELSE Goto(stepAfter.add)
  /\ UNCHANGED <<envVars, gomod, curBranch, cfgVars, pr, verVars, originVars, commitVars, prVars>>

\* Lines 360-373: the message goes to the standard input of git commit.
Commit ==
  /\ pc = "commit"
  /\ LET b == renderCommit(data) IN
     /\ titleBody' = titleBodyOf(b)
     /\ \E err \in BOOLEAN :
          /\ Invoke(<<"git", "commit", "-F", "-">>, err, "")
          /\ IF err
               THEN Fatal(ExecError \o "\n\nWARNING: repository is in an unclean state; please correct before trying again")
               ELSE Goto(stepAfter.commit)
  /\ UNCHANGED <<envVars, gomod, curBranch, cfgVars, pr, verVars, originVars,
                 target, vendorStat, skipVendor, data, oldBranch, branch, prVars>>

\* Lines 376-380 without the test of push at line 376.
Push_unconditional ==
  /\ pc = "push"
  /\ IF TRUE
       THEN \E err \in BOOLEAN :
              /\ Invoke(<<"git", "push", "origin", branch>>, err, "")
              /\ IF err
                   THEN Fatal(ExecError \o "\n\nWARNING: commit succeeded but push failed; push manually to correct")
                   ELSE Goto(stepAfter.push)
       ELSE Goto(stepAfter.push) /\ UNCHANGED log
  /\ UNCHANGED <<envVars, gomod, curBranch, cfgVars, pr, verVars, originVars, commitVars, prVars>>

\* Lines 376-380.
Push ==
  /\ pc = "push"
  /\ IF push
       THEN \E err \in BOOLEAN :
              /\ Invoke(<<"git", "push", "origin", branch>>, err, "")
              /\ IF err
                   THEN Fatal(ExecError \o "\n\nWARNING: commit succeeded but push failed; push manually to correct")
                   ELSE Goto(stepAfter.push)
       ELSE Goto(stepAfter.push) /\ UNCHANGED log
  /\ UNCHANGED <<envVars, gomod, curBranch, cfgVars, pr, verVars, originVars, commitVars, prVars>>

\* The work tree after `git checkout name` succeeded: that of the branch
\* named, or the one at hand when name is the literal HEAD.
treeAfterCheckout(tree, committed, name) ==
  IF name = DetachedHead THEN tree ELSE committed

\* Lines 383-385.
CheckoutOld ==
  /\ pc = "restore"
  /\ \E err \in BOOLEAN :
       /\ Invoke(<<"git", "checkout", oldBranch>>, err, "")
       /\ IF err
            THEN /\ Fatal(ExecError \o "\n\nWARNING: update succeeded, but cannot checkout old branch")
                 /\ UNCHANGED <<curBranch, gomod>>
            ELSE /\ Goto(stepAfter.restore)
                 /\ curBranch' = afterCheckout(curBranch, oldBranch)
                 /\ gomod' = treeAfterCheckout(gomod, headGoMod, oldBranch)
  /\ UNCHANGED <<envVars, cfgVars, pr, verVars, originVars, commitVars, prVars>>

\* Lines 418-440 with the status switch before the body is read and parsed,
\* so that a created pull request is never reported as fatal.
responseOutcome_statusFirst(r) ==
  IF r.status # StatusCreated
    THEN [code |-> 1, msg |-> "fatal: error creating pull request (%s): %s\n", prURL |-> ""]
  ELSE IF r.readErr \/ ~r.wellFormed \/ r.urlKind # "string"
    THEN [code |-> 0, msg |-> "", prURL |-> ""]
  ELSE [code |-> 0, msg |-> "", prURL |-> ResponseURL]

\* Lines 418-440: how main() ends on response r: the exit code, what it
\* wrote to stderr, and the pull request URL it reports.  The type assertion
\* u.(string) of line 433 panics on an html_url that is not a string, and a
\* Go program that panics exits with code 2.
responseOutcome(r) ==
  IF r.readErr
    THEN [code |-> 1, msg |-> "fatal: error reading response body after creating pull request: %s\n\nWARNING: pull request status unknown, check you repository\n", prURL |-> ""]
  ELSE IF r.json /\ ~r.wellFormed
    THEN [code |-> 1, msg |-> "fatal: error reading response JSON: %s\n\nWARNING: pull request status unknown, check your repository\n", prURL |-> ""]
  ELSE IF r.status # StatusCreated
    THEN [code |-> 1, msg |-> "fatal: error creating pull request (%s): %s\n", prURL |-> ""]
  ELSE IF r.urlKind = "other"
    THEN [code |-> 2, msg |-> "panic: interface conversion: interface {} is float64, not string", prURL |-> ""]
  ELSE IF r.urlKind = "string"
    THEN [code |-> 0, msg |-> "", prURL |-> ResponseURL]
  ELSE [code |-> 0, msg |-> "", prURL |-> ""]

\* Lines 404-407: http.NewRequest fails when url.Parse rejects the endpoint.
requestError(endpoint) == urlParse(endpoint).err

\* Lines 388-447.
SubmitPR ==
  /\ pc = "pr"
  /\ IF pr
       THEN /\ payload' = [title |-> titleBody[1], body |-> titleBody[2],
                           head |-> branch, base |-> "master"]
            /\ IF requestError(prEndpoint(remoteOwner, remoteRepo))
                 THEN /\ Fatal("fatal: error creating request: %s\n")
                      /\ UNCHANGED <<prURL, resp, log>>
                 ELSE \/ /\ Invoke(<<"POST", prEndpoint(remoteOwner, remoteRepo)>>, TRUE, "")
                         /\ Fatal("fatal: error creating pull request: %s\n")
                         /\ UNCHANGED <<prURL, resp>>
                      \/ \E r \in Responses :
                           /\ Invoke(<<"POST", prEndpoint(remoteOwner, remoteRepo)>>, FALSE, "")
                           /\ resp' = r
                           /\ prURL' = responseOutcome(r).prURL
                           /\ pc' = "exited"
                           /\ exitCode' = responseOutcome(r).code
                           /\ stderr' = responseOutcome(r).msg
       ELSE /\ Exit(0)
            /\ UNCHANGED <<prVars, log>>
  /\ UNCHANGED <<envVars, gomod, curBranch, cfgVars, pr, verVars, originVars, commitVars>>

Next ==
  \/ ParseArgs
  \/ PreTidy
  \/ StatusProbe
  \/ ReadOldVersion
  \/ CheckOrigin
  \/ GoGet
  \/ ReadNewVersion
  \/ Tidy
  \/ VendorSync
  \/ BuildData
  \/ PostCommand
  \/ GetBranch
  \/ LsRemote
  \/ ResetHard
  \/ CheckoutNew
  \/ AddAll
  \/ Commit
  \/ Push
  \/ CheckoutOld
  \/ SubmitPR

Spec == Init /\ [][Next]_vars

(***************************************************************************)
(* Vocabulary of the properties.                                           *)
(***************************************************************************)
\* Entry e of the log is an invocation whose command line starts with prefix.
IsCmd(e, prefix) ==
  Len(e.cmd) >= Len(prefix) /\ SubSeq(e.cmd, 1, Len(prefix)) = prefix

\* Positions of the log at which a command starting with prefix was invoked.
Calls(prefix) == {i \in DOMAIN log : IsCmd(log[i], prefix)}

Invoked(prefix) == Calls(prefix) # {}

GoModTidy  == <<"go", "mod", "tidy">>
GoModEdit  == <<"go", "mod", "edit", "-json">>
GoModVendor == <<"go", "mod", "vendor">>
GoGetCmd   == <<"go", "get">>
GitStatus  == <<"git", "status", "--porcelain">>
GitRemote  == <<"git", "remote", "get-url", "origin">>
GitRevParse == <<"git", "rev-parse", "--abbrev-ref", "HEAD">>
GitLsRemote == <<"git", "ls-remote", "--heads", "origin">>
GitReset   == <<"git", "reset", "--hard", "HEAD">>
GitCheckoutB == <<"git", "checkout", "-b">>
GitAdd     == <<"git", "add", "--all">>
GitCommit  == <<"git", "commit", "-F", "-">>
GitPush    == <<"git", "push", "origin">>
HttpPost   == <<"POST">>

\* Branch creation, staging, commit, push or a pull request was attempted.
RepositoryMutated ==
  \/ Invoked(GitCheckoutB) \/ Invoked(GitAdd) \/ Invoked(GitCommit)
  \/ Invoked(GitPush) \/ Invoked(HttpPost)

Exited == pc = "exited"

(***************************************************************************)
(* C1  Dirty working tree.                                                 *)
(***************************************************************************)
\* C1: whenever the `git status --porcelain` probe returned non-empty output,
\* the run has ended with exit code 1 and the only external commands ever
\* invoked are the pre-tidy `go mod tidy` followed by the status probe.
C1_DirtyTreeStops ==
  \A i \in Calls(GitStatus) :
    (~log[i].err /\ log[i].out # "") =>
      /\ Exited /\ exitCode = 1
      /\ Len(log) = 2 /\ i = 2
      /\ log[1].cmd = GoModTidy

\* A run that found the tree dirty.
C1_Witness ==
  /\ Exited
  /\ \E i \in Calls(GitStatus) : ~log[i].err /\ log[i].out = " M go.sum\n"

(***************************************************************************)
(* C2  Already-pinned request.                                             *)
(***************************************************************************)
\* The first manifest read succeeded and found the dependency pinned at the
\* version requested with -version.
PinnedAsRequested ==
  /\ Len(log) >= 3 /\ IsCmd(log[3], GoModEdit) /\ ~log[3].err
  /\ \E k \in DOMAIN headGoMod : headGoMod[k].Path = path
  /\ oldVersion = version

\* C2: when the version pinned at the first manifest read equals the version
\* requested with -version, the run has terminated right after that read:
\* no go get, tidy, vendor, branch, add, commit, push or pull request, and
\* neither go.mod nor the checked-out branch has changed.
C2_PinnedNoMutation ==
  PinnedAsRequested =>
    /\ Exited
    /\ Len(log) = 3
    /\ ~Invoked(GoGetCmd) /\ ~Invoked(GoModVendor) /\ ~RepositoryMutated
    /\ Cardinality(Calls(GoModTidy)) = 1
    /\ gomod = headGoMod
    /\ curBranch = startHead

\* A run asked for the version that is already pinned.
C2_Witness == PinnedAsRequested /\ version = "v1.3.0" /\ Exited

(***************************************************************************)
(* C3  Exit codes of the two no-op terminal states.                        *)
(***************************************************************************)
\* The run ended because the version re-read after `go get` equals the
\* version read before it.
UnchangedAfterGet ==
  /\ Exited
  /\ Invoked(GoGetCmd)
  /\ IsCmd(log[Len(log)], GoModEdit) /\ ~log[Len(log)].err
  /\ \E k \in DOMAIN gomod : gomod[k].Path = path /\ gomod[k].Version = oldVersion

\* C3 as stated: both no-op terminal states exit with code 0.
C3_NoOpExitsZero ==
  (PinnedAsRequested \/ UnchangedAfterGet) => exitCode = 0

\* C3 amended: the unchanged-after-fetch state exits with code 0 and writes
\* no error message; the already-pinned state is fatal, exit code 1 with the
\* "already at version" message.
C3_NoOpExitCodes ==
  /\ UnchangedAfterGet => exitCode = 0 /\ stderr = ""
  /\ PinnedAsRequested =>
       exitCode = 1 /\ stderr = "fatal: package %s is already at version %s\n"

\* A run in which `go get` left the version as it was.
C3_Witness == UnchangedAfterGet /\ oldVersion = "v1.2.0" /\ version = ""

(***************************************************************************)
(* C4  Remote collision path.                                              *)
(***************************************************************************)
\* Positions at which the ls-remote query returned non-empty output.
Collisions == {i \in Calls(GitLsRemote) : ~log[i].err /\ log[i].out # ""}

\* C4: once the ls-remote query returned non-empty output, the run never
\* invokes checkout -b, add, commit, push or a pull request; it has exit
\* code 0 only when the next and last invocation is a successful
\* `git reset --hard HEAD`, which has put go.mod back to the committed one,
\* and exit code 1 when that reset failed; the query came after a successful
\* go get, a successful tidy after it, and after the vendor sync if there was
\* one.
C4_CollisionPath ==
  \A i \in Collisions :
    /\ ~RepositoryMutated
    /\ Len(log) <= i + 1
    /\ Exited => /\ Len(log) = i + 1
                 /\ IsCmd(log[i + 1], GitReset)
                 /\ exitCode = (IF log[i + 1].err THEN 1 ELSE 0)
                 /\ exitCode = 0 => gomod = headGoMod
    /\ \E g \in Calls(GoGetCmd) : \E t \in Calls(GoModTidy) :
         /\ g < t /\ t < i
         /\ ~log[g].err /\ ~log[t].err
    /\ \A v \in Calls(GoModVendor) : v < i /\ ~log[v].err

\* A run that met an existing remote branch and reset the tree.
C4_Witness ==
  /\ Exited /\ exitCode = 0
  /\ Collisions # {}
  /\ Invoked(GoModVendor)
  /\ newVersion = "v1.3.0" /\ pkgVersion(gomod, path).version = "v1.2.0"

(***************************************************************************)
(* C5  Pull request gating.                                                *)
(***************************************************************************)
\* Outputs of `git remote get-url origin` that name a repository on
\* github.com.
GitHubRemotes ==
  {"https://github.com/acme/app.git\n",
   "git@github.com:acme/app.git\n",
   "git@github.com:acme/app\n"}

OriginOnGitHub ==
  \E i \in Calls(GitRemote) : ~log[i].err /\ log[i].out \in GitHubRemotes

\* Pushing enabled, -nopr not given, origin on github.com, credential set.
PRConditions ==
  /\ parseArgs(args).push
  /\ parseArgs(args).pr
  /\ OriginOnGitHub
  /\ token # ""

PRPosted == Invoked(HttpPost)

OwnerRepoFormat == "fatal: expected repo remote URI to follow OWNER/REPO format"

\* The run ended before the pull request step because a stage other than the
\* gating failed or reached a no-op or collision exit.
StageStopped ==
  /\ Exited /\ ~PRPosted
  /\ \/ exitCode = 1 /\ stderr # OwnerRepoFormat
     \/ UnchangedAfterGet
     \/ Collisions # {}

\* C5: in a finished run that no other stage stopped, the POST was attempted
\* exactly when the four conditions hold, and when one of them is absent the
\* run ended with exit code 0.
C5_PRGating ==
  (Exited /\ ~StageStopped) =>
    /\ PRPosted <=> PRConditions
    /\ ~PRConditions => exitCode = 0

(***************************************************************************)
(* C6  Owner and repository of the pull request endpoint.                  *)
(***************************************************************************)
\* Owner and repository named by a github.com remote URL, HTTPS or SSH.
RemoteOwnerRepo(out) ==
  LET rawURL == TrimSpace(out)
      p == IF HasPrefix(rawURL, "https://github.com/")
             THEN SubSeq(rawURL, Len("https://github.com/") + 1, Len(rawURL))
             ELSE SubSeq(rawURL, Index(rawURL, ":") + 1, Len(rawURL))
      k == Index(p, "/")
  IN [owner |-> SubSeq(p, 1, k - 1),
      repo  |-> TrimSuffix(SubSeq(p, k + 1, Len(p)), ".git")]

\* C6: for an origin on github.com with a credential, once the origin has
\* been analysed without a fatal error remoteOwner and remoteRepo are the
\* owner and repository of the remote URL, and so is every POST endpoint.
C6_OwnerRepoFromRemote ==
  \A i \in Calls(GitRemote) :
    (~log[i].err /\ log[i].out \in GitHubRemotes /\ token # "" /\ stderr # OwnerRepoFormat) =>
      /\ remoteOwner = RemoteOwnerRepo(log[i].out).owner
      /\ remoteRepo = RemoteOwnerRepo(log[i].out).repo
      /\ \A j \in Calls(HttpPost) :
           log[j].cmd[2] = prEndpoint(RemoteOwnerRepo(log[i].out).owner,
                                      RemoteOwnerRepo(log[i].out).repo)

(***************************************************************************)
(* C7  Branch name.                                                        *)
(***************************************************************************)
\* Final `/`-delimited segment of p.
LastSegment(p) == SubSeq(p, LastIndex(p, "/") + 1, Len(p))

\* The version of the dependency read from go.mod after the upgrade
\* (line 239).
Resolved == newVersion

ExpectedBranch == "update-" \o LastSegment(path) \o "-" \o Resolved

\* C7: the branch named in the ls-remote query, in checkout -b, in push and in
\* the head field of the pull request is always "update-" + last segment of
\* the dependency path + "-" + the version re-read after the upgrade.
C7_BranchName ==
  /\ \A i \in Calls(GitLsRemote) : log[i].cmd = GitLsRemote \o <<ExpectedBranch>>
  /\ \A i \in Calls(GitCheckoutB) : log[i].cmd = GitCheckoutB \o <<ExpectedBranch>>
  /\ \A i \in Calls(GitPush) : log[i].cmd = GitPush \o <<ExpectedBranch>>
  /\ PRPosted => payload.head = ExpectedBranch

\* A run that used the branch name in all four places.
C7_Witness ==
  /\ PRPosted /\ Invoked(GitPush) /\ Invoked(GitCheckoutB) /\ Invoked(GitLsRemote)
  /\ payload.head = "update-bar-v1.3.0"

(***************************************************************************)
(* C8  Human-readable version.                                             *)
(***************************************************************************)
\* The templating context has been built (lines 271-296).
DataBuilt == data.Path # ""

\* The resolved version without its leading v when it is vN.N.N, the
\* resolved version itself otherwise.
HumanVersion(v) == IF vreMatch(v) THEN SubSeq(v, 2, Len(v)) ELSE v

\* C8: the Version field of the templating context is the human-readable
\* form of the resolved version, and the commit title is
\* "modules: upgrade <project> to <Version>" with that value.
C8_HumanVersion ==
  /\ DataBuilt => data.Version = HumanVersion(Resolved)
  /\ Invoked(GitCommit) =>
       titleBody[1] = "modules: upgrade " \o LastSegment(path) \o " to "
                        \o HumanVersion(Resolved)

(***************************************************************************)
(* C9  Release URL.                                                        *)
(***************************************************************************)
\* First `/`-delimited segment of p.
FirstSegment(p) == CutBefore(p, "/")

\* Last hyphen-delimited segment of v.
LastHyphenSegment(v) == SubSeq(v, LastIndex(v, "-") + 1, Len(v))

ExpectedTree(v) == IF vreMatch(v) THEN v ELSE LastHyphenSegment(v)

\* The line of the commit message between the release-page sentence and the
\* closing paragraph.
URLLine(body) ==
  LET from == Index(body, "release page.\n") + Len("release page.\n")
      rest == SubSeq(body, from, Len(body))
  IN CutBefore(rest, "\n")

\* C9: the URL field is non-empty exactly when the first segment of the
\* dependency path is github.com; then it is https://<path>/tree/<tree>, with
\* the raw tag for a strict vN.N.N version and the last hyphen-delimited
\* segment otherwise; when it is empty the URL line of the commit message is
\* blank, and otherwise that line carries the URL.
C9_ReleaseURL ==
  DataBuilt =>
    /\ data.URL # "" <=> FirstSegment(path) = "github.com"
    /\ data.URL # "" =>
         data.URL = "https://" \o path \o "/tree/" \o ExpectedTree(Resolved)
    /\ Invoked(GitCommit) =>
         URLLine(titleBody[2]) = (IF data.URL = "" THEN "" ELSE "  " \o data.URL)

\* A committed upgrade of a github.com dependency to a pseudo-version.
C9_Witness ==
  /\ Invoked(GitCommit)
  /\ data.URL = "https://github.com/foo/bar/tree/abcdef123456"

(***************************************************************************)
(* C10  Usage errors.                                                      *)
(***************************************************************************)
\* Token i of a is the value consumed by a -version flag.
RECURSIVE IsVersionValue(_, _)
IsVersionValue(a, i) ==
  /\ i > 1
  /\ a[i - 1] = "-version"
  /\ ~IsVersionValue(a, i - 1)
  /\ \A k \in 1..(i - 2) : HasPrefix(a[k], "-") \/ IsVersionValue(a, k)

\* Positions that can hold the dependency path: not the value of a -version
\* flag and not starting with "-".
PathPositions(a) ==
  {i \in DOMAIN a : ~IsVersionValue(a, i) /\ ~HasPrefix(a[i], "-") /\ a[i] # ""}

PathPosition(a) == CHOOSE i \in PathPositions(a) : \A k \in PathPositions(a) : i <= k

\* Positions before the dependency path (all positions when there is none).
FlagPositions(a) ==
  IF PathPositions(a) = {} THEN DOMAIN a ELSE 1..(PathPosition(a) - 1)

\* No dependency path, an unrecognized flag before the path, or -version as
\* the last token without a value.
UsageError(a) ==
  \/ PathPositions(a) = {}
  \/ \E i \in FlagPositions(a) :
       ~IsVersionValue(a, i) /\ a[i] \notin {"-nopush", "-nopr", "-version"}
  \/ /\ Len(a) > 0 /\ a[Len(a)] = "-version"
     /\ Len(a) \in FlagPositions(a) /\ ~IsVersionValue(a, Len(a))

\* C10: for every argument list with a usage error the process has, as soon
\* as it has looked at its arguments, exited with code 1 without invoking
\* any external command; any other argument list is accepted.
C10_UsageErrorNoSideEffect ==
  pc # "args" =>
    IF UsageError(args)
      THEN Exited /\ exitCode = 1 /\ log = <<>>
      ELSE Len(log) > 0 \/ pc = "pretidy"

\* -version given last, with no value after it.
C10_Witness ==
  /\ Exited /\ exitCode = 1 /\ log = <<>>
  /\ args = <<"-nopush", "-version">>

(***************************************************************************)
(* C11  Configurable credential variable.                                  *)
(***************************************************************************)
\* The argument list without the two tokens at positions i and i + 1.
WithoutPair(a, i) == SubSeq(a, 1, i - 1) \o SubSeq(a, i + 2, Len(a))

\* Argument lists that are well-formed once `-token NAME`, given among the
\* flags before the dependency path, is read as a flag with a value.
TokenFlagUsage(a) ==
  \E i \in 1..(Len(a) - 2) :
    /\ a[i] = "-token" /\ ~HasPrefix(a[i + 1], "-")
    /\ ~UsageError(WithoutPair(a, i))
    /\ i <= PathPosition(WithoutPair(a, i))

\* C11: a command line on which `-token NAME` precedes the dependency path
\* is accepted by the argument parser, so the run goes on to its first
\* external command instead of ending with a usage error.
C11_TokenFlagAccepted ==
  (pc # "args" /\ TokenFlagUsage(args)) => ~(Exited /\ log = <<>>)

(***************************************************************************)
(* C12  Owner in the templating context.                                   *)
(***************************************************************************)
\* The owning organization of a dependency hosted on github.com: the second
\* segment of its path; "" for any other host.
OwnerOf(p) ==
  IF FirstSegment(p) = "github.com" /\ Len(Split(p, "/")) >= 2
    THEN Split(p, "/")[2]
    ELSE ""

\* C12: once the templating context is built its Owner field is the owning
\* organization of the dependency when the path's first segment is
\* github.com, and empty only for another host.
C12_OwnerFromPath == DataBuilt => data.Owner = OwnerOf(path)

(***************************************************************************)
(* C13  Stage order of the commit phase.                                   *)
(***************************************************************************)
\* Positions of the log at which the post-update command was run: the one
\* command that is neither go nor git nor the HTTP request.
PostCmdCalls == {i \in DOMAIN log : log[i].cmd[1] \notin {"go", "git", "POST"}}

\* Positions of the log at which a command starting with prefix succeeded.
Succeeded(prefix) == {i \in Calls(prefix) : ~log[i].err}

\* C13 as stated: the post-update command is run only after a successful
\* `git checkout -b` and a later successful `git add --all`, and before any
\* `git commit`.
C13_PostCmdAfterStaging ==
  \A i \in PostCmdCalls :
    /\ \E b \in Succeeded(GitCheckoutB) : \E a \in Succeeded(GitAdd) : b < a /\ a < i
    /\ \A c \in Calls(GitCommit) : i < c

\* C13 (amended): the events occur in the order post-command, branched,
\* staged, committed: the post-update command is run before the branch is
\* created, staging follows a successful `git checkout -b`, the commit
\* follows a successful `git add --all`, and when a post-update command was
\* supplied the branch is created only after that command succeeded.
C13_CommitPhaseOrder ==
  /\ \A i \in PostCmdCalls :
       \A j \in Calls(GitCheckoutB) \cup Calls(GitAdd) \cup Calls(GitCommit) : i < j
  /\ \A a \in Calls(GitAdd) : \E b \in Succeeded(GitCheckoutB) : b < a
  /\ \A c \in Calls(GitCommit) : \E a \in Succeeded(GitAdd) : a < c
  /\ (Invoked(GitCheckoutB) /\ Len(postCmdRaw) > 0) =>
       \E i \in PostCmdCalls :
         ~log[i].err /\ log[i].cmd = renderPostCmd(postCmdRaw, data).cmd

\* A run with a post-update command that got as far as a successful commit.
C13_Witness ==
  /\ PostCmdCalls # {}
  /\ Succeeded(GitCommit) # {}

(***************************************************************************)
(* C14  Every external failure is terminal.                                *)
(***************************************************************************)
\* Positions of the log at which an external command or the HTTP request
\* reported failure.
Failures == {i \in DOMAIN log : log[i].err}

\* C14: a failed external command or HTTP request is the last one of the
\* run (nothing is invoked after it and it is not tried again), the process
\* has then exited with code 1, and `git reset --hard HEAD`, the only
\* rollback, is invoked only right after an ls-remote that found the branch
\* on origin.
C14_FailureIsTerminal ==
  /\ \A i \in Failures : i = Len(log) /\ Exited /\ exitCode = 1
  /\ \A i \in Calls(GitReset) : i > 1 /\ (i - 1) \in Collisions

\* `git add --all` failed after the branch was created.
C14_Witness ==
  /\ Exited /\ exitCode = 1
  /\ Failures # {}
  /\ log[Len(log)].cmd = GitAdd /\ log[Len(log)].err

(***************************************************************************)
(* C15  Push ordering and -nopush.                                         *)
(***************************************************************************)
\* -nopush is among the flags before the dependency path.
NoPushGiven(a) ==
  \E i \in FlagPositions(a) : a[i] = "-nopush" /\ ~IsVersionValue(a, i)

\* Positions of the log at which `git checkout <branch>` (without -b) was
\* invoked to return to the original branch.
RestoreCalls ==
  {i \in DOMAIN log :
     /\ Len(log[i].cmd) = 3
     /\ log[i].cmd[1] = "git" /\ log[i].cmd[2] = "checkout"
     /\ log[i].cmd[3] # "-b"}

\* C15: `git push origin <branch>` is invoked only when -nopush was not
\* given and only after a successful `git commit`; with -nopush neither a
\* push nor a PR request is ever made; a failed push is the last thing the
\* run does: exit code 1, no checkout of the original branch, no PR request,
\* and the new branch with the commit still checked out.
C15_PushOrdering ==
  /\ \A i \in Calls(GitPush) :
       /\ ~NoPushGiven(args)
       /\ log[i].cmd = <<"git", "push", "origin", branch>>
       /\ \E c \in Succeeded(GitCommit) : c < i
  /\ NoPushGiven(args) => ~Invoked(GitPush) /\ ~Invoked(HttpPost)
  /\ \A i \in Calls(GitPush) :
       log[i].err =>
         /\ Exited /\ exitCode = 1 /\ i = Len(log)
         /\ RestoreCalls = {} /\ ~Invoked(HttpPost)
         /\ curBranch = branch /\ curBranch # oldBranch

\* A run whose push failed after the commit succeeded.
C15_Witness ==
  /\ Exited
  /\ \E i \in Calls(GitPush) : log[i].err
  /\ Succeeded(GitCommit) # {}

\* A run with -nopush that committed and returned to the original branch.
C15_WitnessNoPush ==
  /\ Exited /\ exitCode = 0
  /\ NoPushGiven(args)
  /\ Succeeded(GitCommit) # {} /\ RestoreCalls # {}

(***************************************************************************)
(* C16  Remote-existence check is tied to pushing.                         *)
(***************************************************************************)
\* Commands that contact origin or ask git about it.
OriginCalls == Calls(GitRemote) \cup Calls(GitLsRemote) \cup Calls(GitPush)

\* C16: in a run with -nopush origin is never queried (no
\* `git remote get-url origin`, no `git ls-remote --heads origin`, no push),
\* so such a run never resets the working tree for a branch found on origin.
C16_NoPushNeverContactsOrigin ==
  NoPushGiven(args) => OriginCalls = {} /\ ~Invoked(GitReset)

(***************************************************************************)
(* C17  Unchanged after fetch.                                             *)
(***************************************************************************)
\* Positions of the log at which go.mod was read after `go get`.
SecondReads == {i \in Calls(GoModEdit) : \E g \in Calls(GoGetCmd) : g < i}

\* The version of the dependency read from go.mod after `go get` is the one
\* read before it.
StillAtOldVersion == newVersion # "" /\ newVersion = oldVersion

\* C17: when the read of go.mod after `go get` succeeds and finds the
\* version read before it, that read is the last invocation of the run and
\* the run has ended: no tidy after the one that opens the run, no vendor
\* sync, post-update command, branch creation, staging, commit, push or PR
\* request.
C17_UnchangedStopsAtOnce ==
  \A i \in SecondReads :
    (~log[i].err /\ StillAtOldVersion) =>
      /\ Exited /\ Len(log) = i
      /\ Calls(GoModTidy) = {1}
      /\ ~Invoked(GoModVendor) /\ PostCmdCalls = {} /\ ~RepositoryMutated

\* `go get -u` of a dependency that is already at its latest version.
C17_Witness ==
  /\ \E i \in SecondReads : ~log[i].err
  /\ StillAtOldVersion /\ Exited
  /\ path = "github.com/foo/bar" /\ version = ""

(***************************************************************************)
(* C18  Vendoring.                                                         *)
(***************************************************************************)
\* The version of the dependency read from go.mod after `go get` differs
\* from the one read before it.
VersionChanged == newVersion # "" /\ newVersion # oldVersion

\* The commit message has the line that reports the vendor sync.
VendorLine == Contains(titleBody[2], "\n  go mod vendor\n")

\* `git commit` is the command invoked last.
Committing == log # <<>> /\ log[Len(log)].cmd = GitCommit

\* C18: a successful read of go.mod after `go get` that finds a changed
\* version is followed at once by `go mod tidy`; `go mod vendor` is invoked
\* exactly when vendor/modules.txt was found to exist; when it does not
\* exist the run goes on to build the templating context; the Vendor flag
\* of that context is true exactly when `go mod vendor` was run, and the
\* message given to `git commit` has the `go mod vendor` line exactly then.
C18_Vendoring ==
  /\ \A i \in SecondReads :
       (~log[i].err /\ VersionChanged) =>
         IF Len(log) = i THEN pc = "tidy"
         ELSE log[i + 1].cmd = GoModTidy
  /\ Invoked(GoModVendor) <=> vendorStat = "exists"
  /\ Cardinality(Calls(GoModVendor)) <= 1
  /\ vendorStat = "notexist" => pc = "data" \/ DataBuilt
  /\ DataBuilt => (data.Vendor <=> Succeeded(GoModVendor) # {})
  /\ Committing => (VendorLine <=> Invoked(GoModVendor))

\* A vendoring repository: the vendor sync ran and the commit reports it.
C18_Witness ==
  /\ vendorStat = "exists" /\ Succeeded(GoModVendor) # {}
  /\ data.Vendor /\ Succeeded(GitCommit) # {} /\ VendorLine

\* A repository without vendor/modules.txt that got as far as the commit.
C18_WitnessNoVendor ==
  /\ vendorStat = "notexist" /\ ~Invoked(GoModVendor)
  /\ DataBuilt /\ ~data.Vendor /\ Succeeded(GitCommit) # {} /\ ~VendorLine

(***************************************************************************)
(* C19  PR outcome.                                                        *)
(***************************************************************************)
\* A response to the POST has arrived.
Received == resp # NoResponse

\* At most one POST, sent after a successful commit, a successful push after
\* it and a successful checkout of the original branch after that.
PostAfterRestore ==
  /\ Cardinality(Calls(HttpPost)) <= 1
  /\ \A i \in Calls(HttpPost) :
       \E c \in Succeeded(GitCommit) : \E p \in Succeeded(GitPush) :
         \E r \in RestoreCalls :
           /\ ~log[r].err
           /\ c < p /\ p < r /\ r < i

\* What main() does only with a parsed JSON body it has done only for a
\* response that declared the JSON content type.
ParsedOnlyIfJSON ==
  /\ stderr = responseOutcome([NoResponse EXCEPT !.json = TRUE]).msg => resp.json
  /\ prURL # "" => resp.json
  /\ (Received /\ exitCode = 2) => resp.json

\* C19 as stated: at most one POST, after commit, push and restore; once a
\* response has arrived the exit code is 0 exactly when its status is 201
\* and 1 for every other status; the body is parsed only under the JSON
\* content type.
C19_ExitZeroIffCreated ==
  /\ PostAfterRestore
  /\ Received =>
       /\ Exited
       /\ exitCode = 0 <=> resp.status = StatusCreated
       /\ resp.status # StatusCreated => exitCode = 1
  /\ ParsedOnlyIfJSON

\* The body of the response could be read and, when the response declared
\* the JSON content type, is a JSON object whose html_url, if any, is a
\* string.
BodyUsable ==
  /\ ~resp.readErr
  /\ resp.json => resp.wellFormed /\ resp.urlKind # "other"

\* C19 (amended): at most one POST, after commit, push and restore; once a
\* response has arrived the run has ended, with exit code 0 only if the
\* status is 201 and with exit code 1 for every other status; with status
\* 201 the exit code is 0 exactly when the body is usable (with or without
\* html_url) and 1 when the body could not be read or does not parse under
\* the JSON content type; the body is parsed only under that content type.
C19_PROutcome ==
  /\ PostAfterRestore
  /\ Received =>
       /\ Exited
       /\ exitCode = 0 => resp.status = StatusCreated
       /\ resp.status # StatusCreated => exitCode = 1
       /\ resp.status = StatusCreated =>
            /\ exitCode = 0 <=> BodyUsable
            /\ (resp.readErr \/ (resp.json /\ ~resp.wellFormed)) => exitCode = 1
  /\ ParsedOnlyIfJSON

\* Status 201 with a JSON content type and a body that does not parse.
C19_Witness ==
  /\ Exited /\ exitCode = 1 /\ Invoked(HttpPost)
  /\ resp.status = StatusCreated /\ resp.json /\ ~resp.wellFormed

\* Status 201 without html_url: the run still succeeds.
C19_WitnessCreated ==
  /\ Exited /\ exitCode = 0 /\ Invoked(HttpPost)
  /\ resp.status = StatusCreated /\ resp.urlKind = "absent" /\ prURL = ""

(***************************************************************************)
(* C20  Branch restoration.                                                *)
(***************************************************************************)
\* The run created its branch.
Branched == Succeeded(GitCheckoutB) # {}

\* C20: a run that ends with exit code 0 leaves checked out what was checked
\* out at its start; if it never created its branch (no-op and
\* remote-collision exits) it invoked no checkout at all; if it did, a
\* successful `git checkout <original>` came after the creation; and
\* whenever `git checkout -b` is invoked the original name has been captured
\* by an earlier `git rev-parse --abbrev-ref HEAD`.
C20_BranchRestored ==
  /\ (Exited /\ exitCode = 0) =>
       /\ curBranch = startHead
       /\ ~Branched => ~Invoked(GitCheckoutB) /\ RestoreCalls = {}
       /\ Branched =>
            \E b \in Succeeded(GitCheckoutB) : \E r \in RestoreCalls :
              /\ b < r /\ ~log[r].err
              /\ log[r].cmd[3] = oldBranch
  /\ \A b \in Calls(GitCheckoutB) :
       \E q \in Succeeded(GitRevParse) :
         q < b /\ oldBranch = TrimSpace(log[q].out)

(***************************************************************************)
(* C21  Missing dependency.                                                *)
(***************************************************************************)
\* Entries of a require list whose path is exactly the dependency path.
ExactMatches(require) == {k \in DOMAIN require : require[k].Path = path}

\* The first read of go.mod succeeded and no requirement has exactly the
\* dependency path.
MissingAtFirstRead ==
  /\ Len(log) >= 3 /\ IsCmd(log[3], GoModEdit) /\ ~log[3].err
  /\ ExactMatches(headGoMod) = {}

\* No successful `git reset --hard HEAD` and no successful checkout of a
\* named branch has replaced the work tree that `go get` produced.
TreeUpgraded ==
  /\ Succeeded(GitReset) = {}
  /\ \A r \in RestoreCalls : log[r].err \/ log[r].cmd[3] = DetachedHead

\* C21: when the first read of go.mod finds no requirement whose path is
\* exactly the dependency path, the run has ended with exit code 1 and the
\* not-found message right after that read: no `go get`, no lookup of
\* origin, no branch, staging, commit, push or PR request; and a version
\* taken from either read is the version of an exactly matching
\* requirement, of go.mod as it was before the upgrade for the first read
\* and, as long as the upgraded work tree is in place, of go.mod as it is for
\* the second.
C21_MissingDependency ==
  /\ MissingAtFirstRead =>
       /\ Exited /\ exitCode = 1 /\ Len(log) = 3
       /\ stderr = "package %q not found in go.mod, cannot get version\n"
       /\ ~Invoked(GoGetCmd) /\ ~Invoked(GitRemote) /\ ~RepositoryMutated
  /\ oldVersion # "" =>
       \E k \in ExactMatches(headGoMod) : headGoMod[k].Version = oldVersion
  /\ (newVersion # "" /\ TreeUpgraded) =>
       \E k \in ExactMatches(gomod) : gomod[k].Version = newVersion

\* The path given is a proper prefix of a required path, not a required path.
C21_Witness ==
  /\ MissingAtFirstRead /\ Exited
  /\ path = "github.com/foo"
  /\ \E k \in DOMAIN headGoMod : HasPrefix(headGoMod[k].Path, path)

====
